---- MODULE Spec2Model ----
(***************************************************************************)
(* Model of the core spatial transforms of datasp-dados:                   *)
(*   core/geo/interpolation.py        areal_weighted_interpolation         *)
(*   core/urbanismo/urban_parks_area.py  prepare_tracts, prepare_risk_area *)
(*                                                                         *)
(* Geometry.  The plane is a row of NCells unit cells; a geometry is the   *)
(* set of cells it covers and its planar area is the number of cells.  The *)
(* polygons of an input layer are single-part: runs of adjacent cells.     *)
(* Intersection, difference and union of geometries are the set            *)
(* operations; a polygon-on-polygon overlay with keep_geom_type=True keeps *)
(* only results of positive area, that is non-empty cell sets.             *)
(*                                                                         *)
(* Numbers.  Floating-point columns are modelled by exact fractions        *)
(* [n, d]; rounding errors of binary floating point are outside the model. *)
(*                                                                         *)
(* Python values.  An argument is a tagged record: [kind |-> "None"],      *)
(* [kind |-> "str", s], [kind |-> "list", items] or                        *)
(* [kind |-> "GeoDataFrame", cols, rows], where cols is the sequence of    *)
(* column names and rows maps each index label to a row, itself a function *)
(* from column name to value.                                              *)
(*                                                                         *)
(* A behaviour is one call: Init draws the function and the caller's       *)
(* objects (args, and heap = args), the Call action runs the function to   *)
(* completion and leaves its return value in ret and the caller's objects, *)
(* as the call left them, in heap.                                         *)
(*                                                                         *)
(* The download clients (core/downloads) talk to a server: srv is the      *)
(* server, net the requests sent so far, each with the response it got,    *)
(* and loc the local variables of the running function.  A client takes    *)
(* one step per HTTP request.  The core transforms use none of the three.  *)
(***************************************************************************)
EXTENDS Integers, Sequences, FiniteSets, TLC

VARIABLES fn, pc, args, heap, ret, srv, net, loc

vars == <<fn, pc, args, heap, ret, srv, net, loc>>

\* ------------------------------------------------------------------ bounds
NCells == 2
MaxVal == 3
ValDen == 2

\* ------------------------------------------------------------ Python values
PyNone == [kind |-> "None"]

PyStr(s) == [kind |-> "str", s |-> s]

PyList(items) == [kind |-> "list", items |-> items]

GeoDataFrame(cols, rows) == [kind |-> "GeoDataFrame", cols |-> cols, rows |-> rows]

ValueError(msg) == [kind |-> "ValueError", msg |-> msg]

Pending == [kind |-> "pending"]

NoServer == [kind |-> "none"]

NoLocals == [kind |-> "none"]

\* bool(x) as Python evaluates it in `if x:` / `if not x:`.  None is false, a
\* str or list is true iff non-empty, and a (Geo)DataFrame of any size raises
\* ValueError("The truth value of a GeoDataFrame is ambiguous ...").
Truth(x) ==
    CASE x.kind = "None" -> "False"
      [] x.kind = "str" -> IF x.s = "" THEN "False" ELSE "True"
      [] x.kind = "list" -> IF x.items = <<>> THEN "False" ELSE "True"
      [] x.kind = "GeoDataFrame" -> "ValueError"

\* ----------------------------------------------------------------- geometry
Cells == 1..NCells

Polygons == {p[1]..p[2] : p \in {q \in Cells \X Cells : q[1] <= q[2]}}

Perimeter(g) == IF g = {} THEN 0 ELSE 2 * Cardinality(g) + 2

Area(g) == Cardinality(g)

GEOM == "geometry"

\* ---------------------------------------------------------------- fractions
Rat(n, d) == [n |-> n, d |-> d]

RMul(a, b) == Rat(a.n * b.n, a.d * b.d)

RAdd(a, b) == Rat(a.n * b.d + b.n * a.d, a.d * b.d)

RECURSIVE RSum(_, _)
RSum(S, f) ==
    IF S = {} THEN Rat(0, 1)
    ELSE LET x == CHOOSE y \in S : TRUE
         IN  RAdd(f[x], RSum(S \ {x}, f))

RoundDown(q) == q.n \div q.d

RoundHalfUp(q) == (2 * q.n + q.d) \div (2 * q.d)

\* DataFrame.round(0) then astype(int): nearest integer, ties to even.
Round0(q) ==
    LET f == q.n \div q.d
        r == q.n - f * q.d
    IN  IF 2 * r < q.d THEN f
        ELSE IF 2 * r > q.d THEN f + 1
        ELSE IF f % 2 = 0 THEN f ELSE f + 1

\* ------------------------------------------------------------------ overlay
\* left.overlay(right, how='intersection', keep_geom_type=True): one row per
\* pair of rows whose geometries overlap, carrying the attributes of both and
\* the common geometry.  The index label of a result row is the pair of index
\* labels it comes from.
OverlayIntersection(left, right) ==
    LET pairs == {p \in (DOMAIN left.rows) \X (DOMAIN right.rows) :
                     left.rows[p[1]][GEOM] \cap right.rows[p[2]][GEOM] # {}}
        lcols == SelectSeq(left.cols, LAMBDA c : c # GEOM)
        rcols == SelectSeq(right.cols, LAMBDA c : c # GEOM)
        row(p) == [c \in {lcols[i] : i \in DOMAIN lcols} \cup
                         {rcols[i] : i \in DOMAIN rcols} \cup {GEOM} |->
                     IF c = GEOM
                       THEN left.rows[p[1]][GEOM] \cap right.rows[p[2]][GEOM]
                     ELSE IF c \in DOMAIN left.rows[p[1]] THEN left.rows[p[1]][c]
                     ELSE right.rows[p[2]][c]]
    IN  GeoDataFrame(lcols \o rcols \o <<GEOM>>, [p \in pairs |-> row(p)])

\* df[col] = values: a new column at the end, or the column overwritten.
WithColumn(df, col, values) ==
    GeoDataFrame(
        IF \E i \in DOMAIN df.cols : df.cols[i] = col THEN df.cols
        ELSE Append(df.cols, col),
        [k \in DOMAIN df.rows |->
            [c \in DOMAIN df.rows[k] \cup {col} |->
                IF c = col THEN values[k] ELSE df.rows[k][c]]])

\* ----------------------------------------- areal_weighted_interpolation
PropOfTarget(inter, right, p) ==
    Rat(Area(inter.rows[p][GEOM]), Area(right.rows[p[2]][GEOM]))

\* inter['inter_prop'] = inter['intersection_area'] / inter['total_area']
InterProp(inter, right, p) ==
    Rat(inter.rows[p]["intersection_area"], inter.rows[p]["total_area"])

MergeLeft(right, right_interpolated, right_id_col, final_var_name) ==
    WithColumn(right, final_var_name,
        [k \in DOMAIN right.rows |->
            IF right.rows[k][right_id_col] \in DOMAIN right_interpolated
              THEN right_interpolated[right.rows[k][right_id_col]]
            ELSE 0])

\* right.merge(right_interpolated, how='inner', on=right_id_col)
MergeInner(right, right_interpolated, right_id_col, final_var_name) ==
    LET keep == {k \in DOMAIN right.rows :
                    right.rows[k][right_id_col] \in DOMAIN right_interpolated}
        kept == GeoDataFrame(right.cols, [k \in keep |-> right.rows[k]])
    IN  WithColumn(kept, final_var_name,
            [k \in keep |-> right_interpolated[right.rows[k][right_id_col]]])

areal_weighted_interpolation(a) ==
    LET left0 == a.left
        right == a.right
        right_id_col == a.right_id_col.s
        original_var_name == a.original_var_name.s
        left == WithColumn(left0, "total_area",
                    [k \in DOMAIN left0.rows |-> Area(left0.rows[k][GEOM])])
        inter0 == OverlayIntersection(left, right)
        inter1 == WithColumn(inter0, "intersection_area",
                     [p \in DOMAIN inter0.rows |-> Area(inter0.rows[p][GEOM])])
        inter2 == WithColumn(inter1, "inter_prop",
                     [p \in DOMAIN inter1.rows |-> InterProp(inter1, right, p)])
        final_var_name ==
            IF Truth(a.final_var_name) = "False" THEN original_var_name
            ELSE a.final_var_name.s
        inter == WithColumn(inter2, final_var_name,
                    [p \in DOMAIN inter2.rows |->
                        RMul(inter2.rows[p][original_var_name],
                             inter2.rows[p]["inter_prop"])])
        ids == {inter.rows[p][right_id_col] : p \in DOMAIN inter.rows}
        contrib == [p \in DOMAIN inter.rows |-> inter.rows[p][final_var_name]]
        right_interpolated ==
            [i \in ids |->
                Round0(RSum({p \in DOMAIN inter.rows :
                                inter.rows[p][right_id_col] = i}, contrib))]
    IN  [ret |-> MergeInner(right, right_interpolated, right_id_col, final_var_name),
         heap |-> a]

\* ------------------------------------------------------------ prepare_tracts
\* left.overlay(right, how='difference', keep_geom_type=True): each left row
\* minus everything the right layer covers; rows left with nothing are dropped.
OverlayDifference(left, right) ==
    LET cover == UNION {right.rows[k][GEOM] : k \in DOMAIN right.rows}
        keep == {k \in DOMAIN left.rows : left.rows[k][GEOM] \ cover # {}}
    IN  GeoDataFrame(left.cols,
            [k \in keep |-> [c \in DOMAIN left.rows[k] |->
                IF c = GEOM THEN left.rows[k][GEOM] \ cover ELSE left.rows[k][c]]])

\* df[cols]: the named columns, in the order asked for.
SelectColumns(df, cols) ==
    GeoDataFrame(cols,
        [k \in DOMAIN df.rows |->
            [c \in {cols[i] : i \in DOMAIN cols} |-> df.rows[k][c]]])

IndexRank(k) == IF k \in {"a", "r1", "s1", "t1", "b1"} THEN 0 ELSE 1

\* Position of an overlay row: rows come in the order of the left layer, and
\* within one left row in the order of the right layer.
RowOrder(p) == 2 * IndexRank(p[1]) + IndexRank(p[2])

\* df.dissolve(by=col, aggfunc='first').reset_index(): one row per value of
\* col, its geometry the union of the group's geometries, every other column
\* the value of the group's first row.
Dissolve(df, by) ==
    LET groups == {df.rows[k][by] : k \in DOMAIN df.rows}
        members(v) == {k \in DOMAIN df.rows : df.rows[k][by] = v}
        first(v) == CHOOSE k \in members(v) :
                        \A j \in members(v) : RowOrder(k) <= RowOrder(j)
        others == SelectSeq(df.cols, LAMBDA c : c # by /\ c # GEOM)
    IN  GeoDataFrame(<<by, GEOM>> \o others,
            [v \in groups |->
                [c \in DOMAIN df.rows[first(v)] |->
                    IF c = by THEN v
                    ELSE IF c = GEOM
                      THEN UNION {df.rows[k][GEOM] : k \in members(v)}
                    ELSE df.rows[first(v)][c]]])

prepare_tracts(a) ==
    LET df_tracts == a.df_tracts
        veg == Truth(a.df_vegetation)
        blk == Truth(a.df_street_blocks)
    IN  IF veg = "ValueError"
          THEN [ret |-> ValueError("truth value of df_vegetation"), heap |-> a]
        ELSE
        LET ol1 == IF veg = "True"
                     THEN OverlayDifference(df_tracts, a.df_vegetation)
                   ELSE df_tracts
        IN  IF blk = "ValueError"
              THEN [ret |-> ValueError("truth value of df_street_blocks"), heap |-> a]
            ELSE
            LET tracts_id_col ==
                    IF Truth(a.tracts_id_col) = "False" THEN df_tracts.cols[1]
                    ELSE a.tracts_id_col.s
                ol2 == IF blk = "True"
                         THEN Dissolve(
                                OverlayIntersection(ol1,
                                    SelectColumns(a.df_street_blocks, <<GEOM>>)),
                                tracts_id_col)
                       ELSE ol1
                \* ol2 is the caller's df_tracts itself when no overlay ran
                same_object == veg # "True" /\ blk # "True"
                out == WithColumn(ol2, "adjusted_tract_area",
                          [k \in DOMAIN ol2.rows |-> Area(ol2.rows[k][GEOM])])
            IN  [ret |-> out,
                 heap |-> IF same_object THEN [a EXCEPT !.df_tracts = out] ELSE a]

\* --------------------------------------------------------- prepare_risk_area
\* A str value of a column is a sequence of characters.
LowerChar(ch) ==
    CASE ch = "R" -> "r"
      [] ch = "B" -> "b"
      [] ch = "C" -> "c"
      [] ch = "D" -> "d"
      [] ch = "F" -> "f"
      [] ch = "L" -> "l"
      [] ch = "P" -> "p"
      [] ch = "S" -> "s"
      [] ch = "V" -> "v"
      [] ch = "X" -> "x"
      [] OTHER -> ch

\* str.lower()
Lower(s) == [i \in DOMAIN s |-> LowerChar(s[i])]

\* str.startswith(prefix)
StartsWith(s, prefix) ==
    /\ Len(prefix) <= Len(s)
    /\ SubSeq(s, 1, Len(prefix)) = prefix

\* `sub in name` for the column names of the model.
StrContains(sub, name) ==
    <<sub, name>> \in {<<"grau", "grau_risco">>,
                       <<"cd_identificador", "cd_identificador_lote">>,
                       <<"cd_identificador", "cd_identificador_quadra">>}

FilterExact(df, col_grau, active_risk_prefix) ==
    GeoDataFrame(df.cols,
        [k \in {j \in DOMAIN df.rows :
                    StartsWith(df.rows[j][col_grau], active_risk_prefix)}
            |-> df.rows[k]])

\* risk_area_gdf.loc[col.str.lower().str.startswith(active_risk_prefix.lower())]
FilterActive(df, col_grau, active_risk_prefix) ==
    GeoDataFrame(df.cols,
        [k \in {j \in DOMAIN df.rows :
                    StartsWith(Lower(df.rows[j][col_grau]), Lower(active_risk_prefix))}
            |-> df.rows[k]])

\* The separator literal; an identifier is a str, a sequence of pieces each of
\* which is a digit run or the text of the separator.
SEP == <<".subpref.">>

\* astype(str) of a column that holds str values.
AsStr(v) == v

CompositeId(risk_id, subpref_id) == AsStr(risk_id) \o SEP \o AsStr(subpref_id)

prepare_risk_area(a) ==
    LET risk_area_gdf == a.risk_area_gdf
        subprefeitura_gdf == a.subprefeitura_gdf
        col_grau ==
            risk_area_gdf.cols[
                CHOOSE i \in DOMAIN risk_area_gdf.cols :
                    /\ StrContains(a.risk_grade_col_prefix.s, risk_area_gdf.cols[i])
                    /\ \A j \in 1..(i - 1) :
                         ~StrContains(a.risk_grade_col_prefix.s, risk_area_gdf.cols[j])]
        gdf == FilterActive(risk_area_gdf, col_grau, a.active_risk_prefix.s)
        subprefeitura_id_col ==
            IF Truth(a.subprefeitura_id_col) = "False" THEN subprefeitura_gdf.cols[1]
            ELSE a.subprefeitura_id_col.s
        \* a falsy argument is replaced by a fresh list; otherwise the list
        \* the caller passed is the one appended to
        fresh == Truth(a.subprefeitura_additional_cols) = "False"
        cols0 == IF fresh THEN <<>> ELSE a.subprefeitura_additional_cols.items
        additional_cols ==
            IF \E i \in DOMAIN cols0 : cols0[i] = GEOM THEN cols0
            ELSE Append(cols0, GEOM)
        ol0 == OverlayIntersection(gdf,
                  SelectColumns(subprefeitura_gdf,
                      <<subprefeitura_id_col>> \o additional_cols))
        risk_area_id_col ==
            IF Truth(a.risk_area_id_col) = "False" THEN risk_area_gdf.cols[1]
            ELSE a.risk_area_id_col.s
        ol1 == WithColumn(ol0, "id_area_subprefeitura",
                  [p \in DOMAIN ol0.rows |->
                      CompositeId(ol0.rows[p][risk_area_id_col],
                                  ol0.rows[p][subprefeitura_id_col])])
        cols == <<"id_area_subprefeitura">> \o
                    SelectSeq(ol1.cols, LAMBDA c : c # "id_area_subprefeitura")
    IN  [ret |-> SelectColumns(ol1, cols),
         heap |-> IF fresh THEN a
                  ELSE [a EXCEPT !.subprefeitura_additional_cols =
                                     PyList(additional_cols)]]

\* --------------------------------------------------------- inputs: layers
SourceIndex == {"s1", "s2"}

TargetIndex == {"t1", "t2"}

\* right_id_col "uniquely identifies spatial units" (docstring): one
\* identifier per target row.
TargetId == [t \in TargetIndex |-> IF t = "t1" THEN "T1" ELSE "T2"]

SourceLayers ==
    {GeoDataFrame(<<"pop", GEOM>>, rows) :
        rows \in UNION {[idx -> {[c \in {"pop", GEOM} |->
                                    IF c = "pop" THEN Rat(x[1], ValDen) ELSE x[2]] :
                                 x \in (0..MaxVal) \X Polygons}] :
                        idx \in SUBSET SourceIndex}}

TargetLayers ==
    {GeoDataFrame(<<"id_t", GEOM>>, rows) :
        rows \in {[t \in idx |-> [c \in {"id_t", GEOM} |->
                                    IF c = "id_t" THEN TargetId[t] ELSE g[t]]] :
                    idx \in SUBSET TargetIndex, g \in [TargetIndex -> Polygons]}}

InterpArgs ==
    [left : SourceLayers, right : TargetLayers,
     right_id_col : {PyStr("id_t")}, original_var_name : {PyStr("pop")},
     final_var_name : {PyNone, PyStr("pop_interp")}]

TractIndex == {"a", "b"}

TractIds == {"S1", "S2"}

TractLayers ==
    {GeoDataFrame(<<"cd_setor", GEOM>>, rows) :
        rows \in UNION {[idx -> {[c \in {"cd_setor", GEOM} |->
                                    IF c = "cd_setor" THEN x[1] ELSE x[2]] :
                                 x \in TractIds \X Polygons}] :
                        idx \in SUBSET TractIndex}}

\* A layer that carries a geometry and nothing the functions read.
ShapeLayers(index) ==
    {GeoDataFrame(<<"fid", GEOM>>, rows) :
        rows \in UNION {[idx -> {[c \in {"fid", GEOM} |->
                                    IF c = "fid" THEN "f" ELSE g] :
                                 g \in Polygons}] :
                        idx \in SUBSET index}}

TractsArgs ==
    [df_tracts : TractLayers,
     df_vegetation : {PyNone} \cup ShapeLayers({"v1"}),
     df_street_blocks : {PyNone} \cup ShapeLayers({"b1", "b2"}),
     tracts_id_col : {PyNone, PyStr("cd_setor")}]

RiskIndex == {"r1", "r2"}

SubprefIndex == {"s1", "s2"}

\* The identifier of each row: a str; identifiers are unique within a layer.
RiskId == [k \in RiskIndex |-> IF k = "r1" THEN <<"1">> ELSE <<"1", ".subpref.", "1">>]

SubprefId == [k \in SubprefIndex |-> IF k = "s1" THEN <<"1">> ELSE <<"1", ".subpref.", "1">>]

Grades == {<<"R", "4">>, <<"r", "3">>, <<"B", "1">>}

ActivePrefixes == {<<"R">>, <<"r", "3">>, <<>>}

RiskLayers ==
    {GeoDataFrame(<<"cd_risco", "grau_risco", GEOM>>, rows) :
        rows \in {[k \in idx |-> [c \in {"cd_risco", "grau_risco", GEOM} |->
                                    IF c = "cd_risco" THEN RiskId[k]
                                    ELSE IF c = "grau_risco" THEN x[k][1]
                                    ELSE x[k][2]]] :
                    idx \in SUBSET RiskIndex,
                    x \in [RiskIndex -> Grades \X Polygons]}}

SubprefLayers ==
    {GeoDataFrame(<<"cd_subpref", "nm_subpref", GEOM>>, rows) :
        rows \in {[k \in idx |-> [c \in {"cd_subpref", "nm_subpref", GEOM} |->
                                    IF c = "cd_subpref" THEN SubprefId[k]
                                    ELSE IF c = "nm_subpref" THEN "N"
                                    ELSE g[k]]] :
                    idx \in SUBSET SubprefIndex,
                    g \in [SubprefIndex -> Polygons]}}

AdditionalCols ==
    {PyNone, PyList(<<>>), PyList(<<"nm_subpref">>), PyList(<<"nm_subpref", GEOM>>)}

RiskArgs ==
    [risk_area_gdf : RiskLayers,
     risk_area_id_col : {PyNone, PyStr("cd_risco")},
     risk_grade_col_prefix : {PyStr("grau")},
     active_risk_prefix : {PyStr(x) : x \in ActivePrefixes},
     subprefeitura_gdf : SubprefLayers,
     subprefeitura_id_col : {PyNone},
     subprefeitura_additional_cols : AdditionalCols]

\* ------------------------------------------------- downloads/geosampa.py
SERVICE == "WFS"

WFS_VERSION == "1.1.0"

SERVER_MAXIMUM_FEATURES == 30000

\* The default of wfs_max_features.
WfsMaxFeaturesDefault == 10000

\* Number of full pages of SERVER_MAXIMUM_FEATURES features a server holds at
\* most, and of full hit counts a server reports at most before a smaller one.
MaxFullPages == 2

Min(a, b) == IF a <= b THEN a ELSE b

Max(a, b) == IF a >= b THEN a ELSE b

\* The WFS server: the n features of the feature type, numbered 0..n-1 in
\* the order it serves them, the columns of its schema, and how it answers
\* resultType=hits: "paging" counts the features of the window asked for,
\* "arbitrary" reports any number.
FeatureCounts ==
    {q * SERVER_MAXIMUM_FEATURES + d :
        q \in 0..MaxFullPages, d \in {0, 1, SERVER_MAXIMUM_FEATURES - 1}}

Schemas ==
    {<<"ds_nome", "geom">>,
     <<"cd_identificador_lote", "geom">>,
     <<"ds_nome", "cd_identificador_quadra", "cd_identificador_lote">>,
     <<"cd_identificador_quadra", "geom">>}

Servers ==
    [kind : {"wfs"}, n : FeatureCounts, hits : {"paging", "arbitrary"},
     columns : Schemas]

\* numberOfFeatures of the answer to a hits request, as the server may give
\* it; root.attrib.get('numberOfFeatures', 0) reads a missing attribute as 0.
HitsResponses(server, startIndex, maxFeatures) ==
    IF server.hits = "paging"
      THEN {Min(maxFeatures, Max(0, server.n - startIndex))}
    ELSE IF startIndex >= MaxFullPages * SERVER_MAXIMUM_FEATURES
      THEN {0, 1, SERVER_MAXIMUM_FEATURES - 1}
    ELSE {0, 1, SERVER_MAXIMUM_FEATURES - 1, SERVER_MAXIMUM_FEATURES,
          SERVER_MAXIMUM_FEATURES + 1}

\* The features a GetFeature request for data is answered with: the window
\* asked for, cut at the server's own maximum and at the end of the data.
Page(from, to) == [from |-> from, to |-> to]

FeaturesResponse(server, params) ==
    LET start == IF "startIndex" \in DOMAIN params THEN params["startIndex"] ELSE 0
        most == IF "maxFeatures" \in DOMAIN params
                  THEN Min(params["maxFeatures"], SERVER_MAXIMUM_FEATURES)
                ELSE SERVER_MAXIMUM_FEATURES
    IN  Page(Min(start, server.n), Min(server.n, start + most))

\* params.update({key: value})
Update(params, key, value) ==
    [k \in DOMAIN params \cup {key} |-> IF k = key THEN value ELSE params[k]]

\* One exchange on the wire.
Exchange(params, response) == [params |-> params, response |-> response]

\* get_feature_count: params of the hits request at the current offset
HitsParams(feature_type, sortBy, offset) ==
    LET params == [service |-> SERVICE, version |-> WFS_VERSION,
                   request |-> "GetFeature", typeName |-> feature_type,
                   resultType |-> "hits", startIndex |-> offset,
                   maxFeatures |-> SERVER_MAXIMUM_FEATURES]
    IN  IF Truth(sortBy) = "True" THEN Update(params, "sortBy", sortBy.s)
        ELSE params

LastPageAtMost(count) == count <= SERVER_MAXIMUM_FEATURES

\* if count < SERVER_MAXIMUM_FEATURES: break
LastPage(count) == count < SERVER_MAXIMUM_FEATURES

FeatureTypes == {"geoportal:lote"}

CountArgs ==
    [feature_type : FeatureTypes,
     sortBy : {PyNone, PyStr("cd_identificador_lote")}]

\* get_feature_columns: params of the DescribeFeatureType request
DescribeParams(feature_type) ==
    [service |-> SERVICE, version |-> WFS_VERSION,
     request |-> "DescribeFeatureType", typeName |-> feature_type]

\* feature_type.split(":")[-1], for the feature types of the model
SplitLast(feature_type) ==
    CASE feature_type = "geoportal:lote" -> "lote"

\* f"cd_identificador_{feature_name}"
BestCandidate(feature_name) ==
    CASE feature_name = "lote" -> "cd_identificador_lote"

\* determine_sort_column, given the columns get_feature_columns returned
determine_sort_column(columns, feature_type) ==
    LET feature_name == SplitLast(feature_type)
        best_candidate == BestCandidate(feature_name)
        found == {i \in DOMAIN columns :
                     StrContains("cd_identificador", columns[i])}
    IN  IF \E i \in DOMAIN columns : columns[i] = best_candidate
          THEN PyStr(best_candidate)
        ELSE IF found # {}
          THEN PyStr(columns[CHOOSE i \in found : \A j \in found : i <= j])
        ELSE PyNone

\* get_features: base_params
BaseParams(feature_type, output_format, sort_col) ==
    LET base_params == [service |-> SERVICE, version |-> WFS_VERSION,
                        request |-> "GetFeature", typeName |-> feature_type,
                        outputFormat |-> output_format]
    IN  IF Truth(sort_col) = "True"
          THEN Update(base_params, "sortBy", sort_col.s)
        ELSE base_params

\* params of the request for the page that starts at start
PageParams(base_params, start, wfs_max_features) ==
    Update(Update(base_params, "startIndex", start),
           "maxFeatures", wfs_max_features)

\* gpd.read_file(StringIO(response.text)): the features of the response, in
\* the order of the response.  A frame of downloaded features is the sequence
\* of the runs of features it holds.
ReadFile(response) == [kind |-> "GeoDataFrame", parts |-> <<response>>]

\* gpd.GeoDataFrame(pd.concat(gdf_list, ignore_index=True))
RECURSIVE Concat(_)
Concat(gdf_list) ==
    IF gdf_list = <<>> THEN [kind |-> "GeoDataFrame", parts |-> <<>>]
    ELSE [kind |-> "GeoDataFrame",
          parts |-> Head(gdf_list).parts \o Concat(Tail(gdf_list)).parts]

RangeNextSkipping(start, step) == start + step + 1

\* range(0, total, step): the value after start
RangeNext(start, step) == start + step

\* wfs_max_features as callers pass it: none per page, the default, and the
\* server's own maximum.
PageSizes == {0, WfsMaxFeaturesDefault, SERVER_MAXIMUM_FEATURES}

FeaturesArgs ==
    [feature_type : FeatureTypes,
     output_format : {"application/json", "text/xml"},
     wfs_max_features : PageSizes]

\* ---------------------------------------------- downloads/dadosabertos.py
\* A str is the sequence of its characters.
PDF == <<"p", "d", "f">>

CSV == <<"c", "s", "v">>

ExcelNames ==
    {<<"x", "l", "s">>, <<"x", "l", "s", "x">>,
     <<"e", "x", "c", "e", "l">>, <<"o", "d", "s">>}

\* A key the JSON object does not have.
Missing == [kind |-> "missing"]

AttributeError(msg) == [kind |-> "AttributeError", msg |-> msg]

\* The table a pandas reader loads from url.
DataFrame(reader, url) == [kind |-> "DataFrame", reader |-> reader, url |-> url]

\* dict.get(key, default)
Get(d, key, default) == IF d[key].kind = "missing" THEN default ELSE d[key]

\* `t in s` for two str: t occurs in s as a substring.
IsSubstring(t, s) ==
    \E i \in 0..(Len(s) - Len(t)) : SubSeq(s, i + 1, i + Len(t)) = t

\* s.split('.')[-1]
SplitLastDot(s) ==
    LET dots == {i \in DOMAIN s : s[i] = "."}
    IN  IF dots = {} THEN s
        ELSE SubSeq(s, (CHOOSE i \in dots : \A j \in dots : j <= i) + 1, Len(s))

\* load_resource from the decoded response of resource_show on.  A field that
\* is null in the JSON is None, and None has no lower().
load_resource(data) ==
    IF ~data.success THEN ValueError("API request unsuccessful")
    ELSE
      LET result == data.result
          resource_url == result.url
          m == Get(result, "mimetype", PyStr(<<>>))
          f == Get(result, "format", PyStr(<<>>))
      IN  IF m.kind = "None" \/ f.kind = "None"
            THEN AttributeError("'NoneType' object has no attribute 'lower'")
          ELSE
            LET mimetype == Lower(m.s)
                format == Lower(f.s)
                url_ext == Lower(SplitLastDot(resource_url))
                ts == <<mimetype, format, url_ext>>
            IN  IF \E i \in DOMAIN ts : IsSubstring(ts[i], PDF)
                  THEN ValueError("PDF resources are not supported")
                ELSE IF \E i \in DOMAIN ts : IsSubstring(ts[i], CSV)
                  THEN DataFrame("read_csv", resource_url)
                ELSE IF \E i \in DOMAIN ts : ts[i] \in ExcelNames
                  THEN DataFrame("read_excel", resource_url)
                ELSE ValueError("Unsupported file format")

\* The resources of the catalogue: what resource_show may answer.
Mimetypes ==
    {Missing, PyNone, PyStr(<<>>),
     PyStr(<<"t", "e", "x", "t", "/", "c", "s", "v">>),
     PyStr(<<"a", "p", "p", "l", "i", "c", "a", "t", "i", "o", "n", "/",
             "p", "d", "f">>)}

Formats ==
    {Missing, PyStr(<<>>), PyStr(<<"C", "S", "V">>), PyStr(<<"P", "D", "F">>),
     PyStr(<<"X", "L", "S", "X">>), PyStr(<<".", "c", "s", "v">>),
     PyStr(<<"o", "d", "s">>), PyStr(<<"t", "x", "t">>)}

ResourceUrls ==
    {<<"f", ".", "c", "s", "v">>, <<"f", ".", "p", "d", "f">>,
     <<"f", ".", "X", "L", "S", "X">>, <<"f", ".", "z", "i", "p">>}

Catalogues ==
    [kind : {"ckan"}, success : BOOLEAN,
     result : [url : ResourceUrls, mimetype : Mimetypes, format : Formats]]

LoadArgs == [resource_id : {"abc123"}]

\* ------------------------------------------------------------ state machine
InitInterp ==
    /\ fn = "areal_weighted_interpolation"
    /\ pc = "call"
    /\ args \in InterpArgs
    /\ heap = args
    /\ ret = Pending
    /\ srv = NoServer
    /\ net = <<>>
    /\ loc = NoLocals

CallInterp ==
    /\ fn = "areal_weighted_interpolation"
    /\ pc = "call"
    /\ LET out == areal_weighted_interpolation(args)
       IN  /\ ret' = out.ret
           /\ heap' = out.heap
    /\ pc' = "done"
    /\ UNCHANGED <<fn, args, srv, net, loc>>

InitTracts ==
    /\ fn = "prepare_tracts"
    /\ pc = "call"
    /\ args \in TractsArgs
    /\ heap = args
    /\ ret = Pending
    /\ srv = NoServer
    /\ net = <<>>
    /\ loc = NoLocals

CallTracts ==
    /\ fn = "prepare_tracts"
    /\ pc = "call"
    /\ LET out == prepare_tracts(args)
       IN  /\ ret' = out.ret
           /\ heap' = out.heap
    /\ pc' = "done"
    /\ UNCHANGED <<fn, args, srv, net, loc>>

InitRisk ==
    /\ fn = "prepare_risk_area"
    /\ pc = "call"
    /\ args \in RiskArgs
    /\ heap = args
    /\ ret = Pending
    /\ srv = NoServer
    /\ net = <<>>
    /\ loc = NoLocals

CallRisk ==
    /\ fn = "prepare_risk_area"
    /\ pc = "call"
    /\ LET out == prepare_risk_area(args)
       IN  /\ ret' = out.ret
           /\ heap' = out.heap
    /\ pc' = "done"
    /\ UNCHANGED <<fn, args, srv, net, loc>>

\* get_feature_count called by itself: total = 0, offset = 0, about to send
\* the first request.
InitCount ==
    /\ fn = "get_feature_count"
    /\ pc = "count"
    /\ args \in CountArgs
    /\ heap = args
    /\ ret = Pending
    /\ srv \in Servers
    /\ net = <<>>
    /\ loc = [feature_type |-> args.feature_type, sortBy |-> args.sortBy,
              total |-> 0, offset |-> 0]

\* One turn of the `while True:` loop of get_feature_count: the request, the
\* count read from the response, and the break or the next offset.  On the
\* break the function returns total, to its caller when that is get_features.
CountStep ==
    /\ pc = "count"
    /\ LET params == HitsParams(loc.feature_type, loc.sortBy, loc.offset)
       IN  \E count \in HitsResponses(srv, loc.offset, SERVER_MAXIMUM_FEATURES) :
              LET total == loc.total + count
              IN  /\ net' = Append(net, Exchange(params, count))
                  /\ IF LastPage(count)
                       THEN /\ loc' = [loc EXCEPT !.total = total]
                            /\ IF fn = "get_feature_count"
                                 THEN pc' = "done" /\ ret' = total
                               ELSE pc' = "fetch" /\ ret' = ret
                     ELSE /\ loc' = [loc EXCEPT !.total = total,
                                       !.offset = loc.offset + SERVER_MAXIMUM_FEATURES]
                          /\ pc' = "count"
                          /\ ret' = ret
    /\ UNCHANGED <<fn, args, heap, srv>>

\* get_features: about to ask for the schema.  The locals of the call of
\* get_feature_count it makes are kept with its own.
InitFeatures ==
    /\ fn = "get_features"
    /\ pc = "sort"
    /\ args \in FeaturesArgs
    /\ heap = args
    /\ ret = Pending
    /\ srv \in Servers
    /\ net = <<>>
    /\ loc = [feature_type |-> args.feature_type, sortBy |-> PyNone,
              total |-> 0, offset |-> 0, start |-> 0, gdf_list |-> <<>>]

\* sort_col = determine_sort_column(feature_type), with the request of
\* get_feature_columns; then get_feature_count(feature_type, sort_col) is
\* entered.
SortStep ==
    /\ fn = "get_features"
    /\ pc = "sort"
    /\ net' = Append(net, Exchange(DescribeParams(loc.feature_type), srv.columns))
    /\ loc' = [loc EXCEPT
                 !.sortBy = determine_sort_column(srv.columns, loc.feature_type)]
    /\ pc' = "count"
    /\ UNCHANGED <<fn, args, heap, ret, srv>>

\* total <= wfs_max_features: the single request
FetchSingle ==
    /\ fn = "get_features"
    /\ pc = "fetch"
    /\ loc.total <= args.wfs_max_features
    /\ LET params == BaseParams(loc.feature_type, args.output_format, loc.sortBy)
           response == FeaturesResponse(srv, params)
       IN  /\ net' = Append(net, Exchange(params, response))
           /\ ret' = IF args.output_format = "application/json"
                       THEN ReadFile(response)
                     ELSE ValueError("Unsupported output_format")
    /\ pc' = "done"
    /\ UNCHANGED <<fn, args, heap, srv, loc>>

\* total > wfs_max_features: one turn of the loop over
\* range(0, total, wfs_max_features), and after its last turn the
\* concatenation.  range() raises ValueError for a step of zero.
FetchPage ==
    /\ fn = "get_features"
    /\ pc = "fetch"
    /\ loc.total > args.wfs_max_features
    /\ IF args.wfs_max_features = 0
         THEN /\ ret' = ValueError("range() arg 3 must not be zero")
              /\ pc' = "done"
              /\ UNCHANGED <<net, loc>>
       ELSE
         LET params == PageParams(BaseParams(loc.feature_type,
                                             args.output_format, loc.sortBy),
                                  loc.start, args.wfs_max_features)
             response == FeaturesResponse(srv, params)
             gdf_list == Append(loc.gdf_list, ReadFile(response))
             next == RangeNext(loc.start, args.wfs_max_features)
         IN  /\ net' = Append(net, Exchange(params, response))
             /\ IF args.output_format # "application/json"
                  THEN /\ ret' = ValueError("Unsupported output_format")
                       /\ pc' = "done"
                       /\ loc' = loc
                ELSE IF next < loc.total
                  THEN /\ loc' = [loc EXCEPT !.start = next,
                                            !.gdf_list = gdf_list]
                       /\ pc' = "fetch"
                       /\ ret' = ret
                ELSE /\ loc' = [loc EXCEPT !.gdf_list = gdf_list]
                     /\ ret' = Concat(gdf_list)
                     /\ pc' = "done"
    /\ UNCHANGED <<fn, args, heap, srv>>

InitLoad ==
    /\ fn = "load_resource"
    /\ pc = "call"
    /\ args \in LoadArgs
    /\ heap = args
    /\ ret = Pending
    /\ srv \in Catalogues
    /\ net = <<>>
    /\ loc = NoLocals

\* The resource_show request and what load_resource does with the answer; the
\* pandas reader fetches the resource itself.
CallLoad ==
    /\ fn = "load_resource"
    /\ pc = "call"
    /\ LET params == [id |-> args.resource_id]
           data == [success |-> srv.success, result |-> srv.result]
       IN  /\ net' = Append(net, Exchange(params, data))
           /\ ret' = load_resource(data)
    /\ pc' = "done"
    /\ UNCHANGED <<fn, args, heap, srv, loc>>

Init ==
    \/ InitInterp
    \/ InitTracts
    \/ InitRisk
    \/ InitCount
    \/ InitFeatures
    \/ InitLoad

Next ==
    \/ CallInterp
    \/ CallTracts
    \/ CallRisk
    \/ CountStep
    \/ SortStep
    \/ FetchSingle
    \/ FetchPage
    \/ CallLoad

Spec == Init /\ [][Next]_vars

SpecInterp == InitInterp /\ [][CallInterp]_vars

SpecTracts == InitTracts /\ [][CallTracts]_vars

SpecRisk == InitRisk /\ [][CallRisk]_vars

\* The call runs on: a request that is due is sent and answered.
SpecCount == InitCount /\ [][CountStep]_vars /\ WF_vars(CountStep)

FeaturesNext == SortStep \/ CountStep \/ FetchSingle \/ FetchPage

SpecLoad == InitLoad /\ [][CallLoad]_vars

SpecFeatures == InitFeatures /\ [][FeaturesNext]_vars /\ WF_vars(FeaturesNext)

Done == pc = "done"

\* =================================================================== claims
Abs(x) == IF x < 0 THEN -x ELSE x

\* v is an integer nearest to the fraction q.
Nearest(v, q) == 2 * Abs(v * q.d - q.n) <= q.d

\* ------------------------------------------- areal_weighted_interpolation
InterpDone == fn = "areal_weighted_interpolation" /\ Done

SrcRows == args.left.rows

TgtRows == args.right.rows

VarName == args.original_var_name.s

IdCol == args.right_id_col.s

FinalName ==
    IF args.final_var_name.kind = "None" THEN VarName ELSE args.final_var_name.s

Overlaps(s, t) == SrcRows[s][GEOM] \cap TgtRows[t][GEOM] # {}

\* The fragments that carry target identifier tid, and the share of its
\* source's value each of them stands for.
FragmentsOf(tid) ==
    {p \in (DOMAIN SrcRows) \X (DOMAIN TgtRows) :
        TgtRows[p[2]][IdCol] = tid /\ Overlaps(p[1], p[2])}

Share(p) ==
    Rat(SrcRows[p[1]][VarName].n *
            Cardinality(SrcRows[p[1]][GEOM] \cap TgtRows[p[2]][GEOM]),
        SrcRows[p[1]][VarName].d * Cardinality(SrcRows[p[1]][GEOM]))

WeightedSum(tid) ==
    RSum(FragmentsOf(tid), [p \in FragmentsOf(tid) |-> Share(p)])

\* C1: for every target identifier t of the result, the value in column
\* final_var_name is the integer nearest to the sum, over the fragments whose
\* right_id_col is t, of source_value * fragment_area / area of the source
\* polygon; a source of two cells split evenly between two targets gives each
\* target half of its value, rounded.
C1_RoundedWeightedSum ==
    InterpDone =>
        /\ ret.kind = "GeoDataFrame"
        /\ \A k \in DOMAIN ret.rows :
              /\ ret.rows[k][FinalName] \in Int
              /\ Nearest(ret.rows[k][FinalName], WeightedSum(ret.rows[k][IdCol]))

\* A target fed by two sources whose weighted sum is not an integer.
C1_Witness ==
    /\ InterpDone
    /\ \E k \in DOMAIN ret.rows :
          LET q == WeightedSum(ret.rows[k][IdCol])
          IN  /\ Cardinality(FragmentsOf(ret.rows[k][IdCol])) = 2
              /\ q.n % q.d # 0
              /\ ret.rows[k][FinalName] > 0

\* C2: the result holds exactly the target records whose identifier occurs on
\* some intersection fragment, each with the attributes and geometry it had;
\* targets that no source overlaps are dropped, the result has no more rows
\* than the target layer, and it is empty when nothing overlaps.
C2_InnerJoinKeepsOverlapped ==
    InterpDone =>
        /\ ret.kind = "GeoDataFrame"
        /\ DOMAIN ret.rows =
              {t \in DOMAIN TgtRows : \E s \in DOMAIN SrcRows : Overlaps(s, t)}
        /\ \A t \in DOMAIN ret.rows :
              \A c \in DOMAIN TgtRows[t] : ret.rows[t][c] = TgtRows[t][c]
        /\ Cardinality(DOMAIN ret.rows) <= Cardinality(DOMAIN TgtRows)
        /\ ((\A s \in DOMAIN SrcRows : \A t \in DOMAIN TgtRows : ~Overlaps(s, t))
               => DOMAIN ret.rows = {})

\* One target kept and one dropped.
C2_Witness ==
    /\ InterpDone
    /\ Cardinality(DOMAIN TgtRows) = 2
    /\ Cardinality(DOMAIN ret.rows) = 1
    /\ DOMAIN SrcRows # {}

\* The targets that exactly partition source s, no other source overlapping
\* any of them.
PartitionOf(s) == {t \in DOMAIN TgtRows : Overlaps(s, t)}

IsPartitioned(s) ==
    /\ PartitionOf(s) # {}
    /\ UNION {TgtRows[t][GEOM] : t \in PartitionOf(s)} = SrcRows[s][GEOM]
    /\ \A t, u \in PartitionOf(s) :
          t # u => TgtRows[t][GEOM] \cap TgtRows[u][GEOM] = {}
    /\ \A t \in PartitionOf(s) :
          \A o \in DOMAIN SrcRows : o # s => ~Overlaps(o, t)

SumOver(T) ==
    RSum(T, [t \in T |-> Rat(ret.rows[t][FinalName], 1)]).n

\* C3 as stated: over an exact partition the interpolated values add up to the
\* rounded value of the source polygon.
C3_SumEqualsRoundedValue ==
    InterpDone =>
        \A s \in DOMAIN SrcRows :
            IsPartitioned(s) =>
                SumOver(PartitionOf(s)) = Round0(SrcRows[s][VarName])

\* C3 amended: over an exact partition into k target polygons the interpolated
\* values add up to the source value to within k/2 (half a unit per row).
C3_SumWithinHalfPerRow ==
    InterpDone =>
        \A s \in DOMAIN SrcRows :
            IsPartitioned(s) =>
                LET v == SrcRows[s][VarName]
                    k == Cardinality(PartitionOf(s))
                IN  2 * Abs(SumOver(PartitionOf(s)) * v.d - v.n) <= k * v.d

\* A source split between two targets.
C3_Witness ==
    /\ InterpDone
    /\ \E s \in DOMAIN SrcRows :
          /\ IsPartitioned(s)
          /\ Cardinality(PartitionOf(s)) = 2
          /\ SumOver(PartitionOf(s)) > 0

\* Target t wholly contains source s and meets no other source.
Contains(t, s) ==
    /\ SrcRows[s][GEOM] \subseteq TgtRows[t][GEOM]
    /\ \A o \in DOMAIN SrcRows : o # s => ~Overlaps(o, t)

\* C4 as stated: a target that wholly contains one source, and meets no other,
\* gets exactly the source's original value.
C4_ContainedEqualsValue ==
    InterpDone =>
        \A t \in DOMAIN TgtRows : \A s \in DOMAIN SrcRows :
            Contains(t, s) =>
                /\ t \in DOMAIN ret.rows
                /\ ret.rows[t][FinalName] * SrcRows[s][VarName].d =
                      SrcRows[s][VarName].n

\* C4 amended: such a target gets the source's value rounded to the nearest
\* integer, a tie going to the even one; so exactly the value when it is whole.
C4_ContainedEqualsRoundedValue ==
    InterpDone =>
        \A t \in DOMAIN TgtRows : \A s \in DOMAIN SrcRows :
            Contains(t, s) =>
                LET v == SrcRows[s][VarName]
                IN  /\ t \in DOMAIN ret.rows
                    /\ Nearest(ret.rows[t][FinalName], v)
                    /\ (2 * Abs(ret.rows[t][FinalName] * v.d - v.n) = v.d
                           => ret.rows[t][FinalName] % 2 = 0)
                    /\ (v.n % v.d = 0 => ret.rows[t][FinalName] * v.d = v.n)

\* A target strictly larger than the source it contains, the value not whole.
C4_Witness ==
    /\ InterpDone
    /\ \E t \in DOMAIN TgtRows : \E s \in DOMAIN SrcRows :
          /\ Contains(t, s)
          /\ SrcRows[s][GEOM] # TgtRows[t][GEOM]
          /\ SrcRows[s][VarName].n % SrcRows[s][VarName].d # 0
          /\ ret.rows[t][FinalName] > 0

\* ------------------------------------------------ caller-supplied objects
\* C5: no core pipeline function changes an object its caller supplied: after
\* any call every input layer has the columns, rows and geometries it had and
\* every list argument the elements it had.
C5_CallerObjectsUnchanged ==
    Done => heap = args

\* ---------------------------------------------------------- prepare_tracts
TractsDone == fn = "prepare_tracts" /\ Done

Supplied(x) == x.kind # "None"

NonEmptyLayer(x) == x.kind = "GeoDataFrame" /\ DOMAIN x.rows # {}

\* C6: with no vegetation layer and no street-block layer prepare_tracts
\* returns the rows, geometries and attributes of the tract layer plus one
\* added column, adjusted_tract_area, holding each row's planar area.
C6_PlainTractsGainAreaColumn ==
    (TractsDone /\ ~Supplied(args.df_vegetation) /\ ~Supplied(args.df_street_blocks)) =>
        /\ ret.kind = "GeoDataFrame"
        /\ ret.cols = args.df_tracts.cols \o <<"adjusted_tract_area">>
        /\ DOMAIN ret.rows = DOMAIN args.df_tracts.rows
        /\ \A k \in DOMAIN ret.rows :
              /\ DOMAIN ret.rows[k] =
                    DOMAIN args.df_tracts.rows[k] \cup {"adjusted_tract_area"}
              /\ \A c \in DOMAIN args.df_tracts.rows[k] :
                    ret.rows[k][c] = args.df_tracts.rows[k][c]
              /\ ret.rows[k]["adjusted_tract_area"] =
                    Cardinality(args.df_tracts.rows[k][GEOM])

\* Two tracts of different areas, neither optional layer given.
C6_Witness ==
    /\ TractsDone
    /\ ~Supplied(args.df_vegetation)
    /\ ~Supplied(args.df_street_blocks)
    /\ ret.kind = "GeoDataFrame"
    /\ \E j, k \in DOMAIN ret.rows :
          ret.rows[j]["adjusted_tract_area"] < ret.rows[k]["adjusted_tract_area"]

\* C7: with a street-block layer the output has exactly one row per distinct
\* tract identifier of the tract layer; without one it has one row per
\* difference fragment, unmerged.
C7_OneRowPerTractWithBlocks ==
    TractsDone =>
        /\ ret.kind = "GeoDataFrame"
        /\ Supplied(args.df_street_blocks) =>
              LET id == IF Supplied(args.tracts_id_col) THEN args.tracts_id_col.s
                        ELSE args.df_tracts.cols[1]
                  tract_ids == {args.df_tracts.rows[k][id] :
                                   k \in DOMAIN args.df_tracts.rows}
              IN  /\ {ret.rows[k][id] : k \in DOMAIN ret.rows} = tract_ids
                  /\ Cardinality(DOMAIN ret.rows) = Cardinality(tract_ids)
        /\ ~Supplied(args.df_street_blocks) =>
              DOMAIN ret.rows =
                  DOMAIN (IF Supplied(args.df_vegetation)
                            THEN OverlayDifference(args.df_tracts, args.df_vegetation)
                          ELSE args.df_tracts).rows

\* C10: each optional layer of prepare_tracts is tested for truthiness: None
\* and an empty layer are false and skip the step without error, a non-empty
\* layer is true and the step is applied.
C10_TruthinessOfOptionalLayers ==
    TractsDone =>
        LET id == IF Supplied(args.tracts_id_col) THEN args.tracts_id_col.s
                  ELSE args.df_tracts.cols[1]
            ol1 == IF NonEmptyLayer(args.df_vegetation)
                     THEN OverlayDifference(args.df_tracts, args.df_vegetation)
                   ELSE args.df_tracts
            ol2 == IF NonEmptyLayer(args.df_street_blocks)
                     THEN Dissolve(
                            OverlayIntersection(ol1,
                                SelectColumns(args.df_street_blocks, <<GEOM>>)), id)
                   ELSE ol1
        IN  /\ ret.kind = "GeoDataFrame"
            /\ ret = WithColumn(ol2, "adjusted_tract_area",
                        [k \in DOMAIN ol2.rows |-> Cardinality(ol2.rows[k][GEOM])])

\* -------------------------------------------------------- prepare_risk_area
RiskDone == fn = "prepare_risk_area" /\ Done

RiskRows == args.risk_area_gdf.rows

SubprefRows == args.subprefeitura_gdf.rows

\* The grade of risk row r starts, case-insensitively, with the active prefix.
IsActive(r) ==
    LET grade == RiskRows[r]["grau_risco"]
        prefix == args.active_risk_prefix.s
    IN  /\ Len(prefix) <= Len(grade)
        /\ \A i \in 1..Len(prefix) : LowerChar(grade[i]) = LowerChar(prefix[i])

Meets(r, sp) == RiskRows[r][GEOM] \cap SubprefRows[sp][GEOM] # {}

\* C8: every output row of prepare_risk_area derives from a risk-area row
\* whose grade starts, case-insensitively, with active_risk_prefix; and every
\* such row that intersects a subprefecture polygon yields an output row.
C8_OnlyAndAllActiveRiskRows ==
    RiskDone =>
        /\ ret.kind = "GeoDataFrame"
        /\ \A p \in DOMAIN ret.rows :
              /\ p[1] \in DOMAIN RiskRows
              /\ IsActive(p[1])
              /\ ret.rows[p]["cd_risco"] = RiskRows[p[1]]["cd_risco"]
              /\ ret.rows[p]["grau_risco"] = RiskRows[p[1]]["grau_risco"]
              /\ ret.rows[p][GEOM] \subseteq RiskRows[p[1]][GEOM]
        /\ \A r \in DOMAIN RiskRows :
              (IsActive(r) /\ \E sp \in DOMAIN SubprefRows : Meets(r, sp))
                  => \E p \in DOMAIN ret.rows : p[1] = r

\* One row kept whose grade differs from the prefix in case only, one row
\* that meets a subprefecture filtered out.
C8_Witness ==
    /\ RiskDone
    /\ \E r \in DOMAIN RiskRows :
          /\ ~IsActive(r)
          /\ \E sp \in DOMAIN SubprefRows : Meets(r, sp)
    /\ \E p \in DOMAIN ret.rows :
          /\ args.active_risk_prefix.s # <<>>
          /\ ~StartsWith(RiskRows[p[1]]["grau_risco"], args.active_risk_prefix.s)

\* C9: on single-part inputs every output row's id_area_subprefeitura is
\* str(risk id) + '.subpref.' + str(subprefecture id), it is the first column,
\* and no two output rows carry the same id_area_subprefeitura.
C9_CompositeIdUnique ==
    RiskDone =>
        /\ ret.cols[1] = "id_area_subprefeitura"
        /\ \A p \in DOMAIN ret.rows :
              ret.rows[p]["id_area_subprefeitura"] =
                  RiskRows[p[1]]["cd_risco"] \o <<".subpref.">> \o
                      SubprefRows[p[2]]["cd_subpref"]
        /\ \A p, q \in DOMAIN ret.rows :
              p # q => ret.rows[p]["id_area_subprefeitura"] #
                          ret.rows[q]["id_area_subprefeitura"]

\* -------------------------------------------------------- get_feature_count
CountCall == fn = "get_feature_count"

RECURSIVE SumOfResponses(_)
SumOfResponses(exchanges) ==
    IF exchanges = <<>> THEN 0
    ELSE Head(exchanges).response + SumOfResponses(Tail(exchanges))

\* The requests sent so far are hit counts at startIndex 0, 30000, 60000, ...
\* in that order, each sent only after full counts; once the call has
\* returned, the last response is the first below 30000 and the value
\* returned is the sum of all counts, which for a server that counts the
\* window asked for is the number of features of the feature type.
C13_CountSteps ==
    CountCall =>
        /\ \A i \in DOMAIN net :
              /\ net[i].params["resultType"] = "hits"
              /\ net[i].params["startIndex"] = (i - 1) * 30000
              /\ net[i].params["maxFeatures"] = 30000
              /\ i < Len(net) => net[i].response >= 30000
        /\ ~Done => (\A i \in DOMAIN net : net[i].response >= 30000)
        /\ Done =>
              /\ net # <<>>
              /\ net[Len(net)].response < 30000
              /\ ret = SumOfResponses(net)
              /\ srv.hits = "paging" => ret = srv.n

\* C13: get_feature_count requests hit counts at startIndex 0, 30000, 60000,
\* ... in that order, stops after the first response below
\* SERVER_MAXIMUM_FEATURES, returns the sum of the counts received, which is
\* the total number of features, and terminates whenever some response
\* eventually reports fewer than 30000 features.
C13_CountsPagesAndTerminates ==
    /\ [](C13_CountSteps)
    /\ <>(CountCall => Done)

\* A server holding exactly two full pages: three requests, the last
\* answered 0.
C13_Witness ==
    /\ CountCall
    /\ Done
    /\ srv.hits = "paging"
    /\ Len(net) = 3
    /\ net[3].response = 0
    /\ ret = 60000

\* -------------------------------------------------------------- get_features
FeaturesCall == fn = "get_features"

\* The requests for data sent so far, in the order sent.
DataRequests == SelectSeq(net, LAMBDA x : "outputFormat" \in DOMAIN x.params)

\* total has been counted.
Counted == FeaturesCall /\ pc \in {"fetch", "done"}

\* Number of multiples of m below total.
MultiplesBelow(total, m) == (total + m - 1) \div m

\* The single request of the case total <= m.
SingleRequest(d) ==
    /\ Len(d) = 1
    /\ "startIndex" \notin DOMAIN d[1].params
    /\ "maxFeatures" \notin DOMAIN d[1].params

\* The requests d ask for windows of m features that start at 0, follow one
\* another without gap or overlap, and are sent in ascending order.
Consecutive(d, m) ==
    /\ \A i \in DOMAIN d :
          /\ d[i].params["startIndex"] = (i - 1) * m
          /\ d[i].params["maxFeatures"] = m
    /\ \A i, j \in DOMAIN d :
          i < j => d[i].params["startIndex"] + m <= d[j].params["startIndex"]
    /\ \A i \in DOMAIN d :
          i < Len(d) =>
              d[i + 1].params["startIndex"] = d[i].params["startIndex"] + m

\* The windows of d reach the index total - 1 and none starts beyond it.
CoversUpTo(d, total, m) ==
    /\ d # <<>>
    /\ Len(d) = MultiplesBelow(total, m)
    /\ d[Len(d)].params["startIndex"] < total
    /\ total <= d[Len(d)].params["startIndex"] + m

\* The frame returned holds the pages received, in the order requested.
PagesInOrder(d) ==
    /\ ret.kind = "GeoDataFrame"
    /\ ret.parts = [i \in DOMAIN d |-> d[i].response]

\* C11 as stated: for m > 0, one request without startIndex/maxFeatures when
\* total <= m, and otherwise requests at every multiple of m below total, in
\* ascending order, whose windows tile 0..total-1, the result being the pages
\* concatenated in request order.
C11_PagesTileTotal ==
    (Counted /\ args.wfs_max_features > 0) =>
        LET m == args.wfs_max_features
            d == DataRequests
        IN  IF loc.total <= m
              THEN Done => SingleRequest(d)
            ELSE /\ Consecutive(d, m)
                 /\ Done => CoversUpTo(d, loc.total, m) /\ PagesInOrder(d)

\* C11 amended: as stated when output_format is 'application/json'; with any
\* other output_format and total > m the call sends the request for the
\* window at 0 only and raises ValueError.
C11_PagesTileTotalForJson ==
    (Counted /\ args.wfs_max_features > 0) =>
        LET m == args.wfs_max_features
            d == DataRequests
            json == args.output_format = "application/json"
        IN  IF loc.total <= m
              THEN Done => /\ SingleRequest(d)
                           /\ json => PagesInOrder(d)
            ELSE /\ Consecutive(d, m)
                 /\ (Done /\ json) =>
                        CoversUpTo(d, loc.total, m) /\ PagesInOrder(d)
                 /\ (Done /\ ~json) =>
                        Len(d) = 1 /\ ret.kind = "ValueError"

\* Four pages for 30001 features, the last one short.
C11_Witness ==
    /\ FeaturesCall
    /\ Done
    /\ args.output_format = "application/json"
    /\ loc.total = SERVER_MAXIMUM_FEATURES + 1
    /\ args.wfs_max_features = WfsMaxFeaturesDefault
    /\ Len(DataRequests) = 4
    /\ ret.kind = "GeoDataFrame"
    /\ Len(ret.parts) = 4
    /\ ret.parts[4] = Page(30000, 30001)

\* ------------------------------------------------------------- load_resource
LoadCall == fn = "load_resource"

\* The text of a field of the resource, lower-cased; empty when the field is
\* missing.
FieldText(v) == IF v.kind = "str" THEN Lower(v.s) ELSE <<>>

\* mimetype, format and the extension of the URL.
Declared ==
    {FieldText(srv.result.mimetype), FieldText(srv.result.format),
     Lower(SplitLastDot(srv.result.url))}

DenotesPdf ==
    Declared \cap {PDF, <<"a", "p", "p", "l", "i", "c", "a", "t", "i", "o", "n",
                         "/", "p", "d", "f">>} # {}

DenotesCsv ==
    Declared \cap {CSV, <<"t", "e", "x", "t", "/", "c", "s", "v">>} # {}

DenotesExcel == Declared \cap ExcelNames # {}

\* C12: on a successful resource_show response whose mimetype and format are
\* text or missing, load_resource raises 'PDF resources are not supported' only
\* when one of mimetype, format and URL extension denotes pdf; otherwise it
\* reads the resource as CSV when one of the three denotes csv, as Excel when
\* one is xls/xlsx/excel/ods, and raises 'Unsupported file format' when none
\* does; so a CSV or Excel resource with a missing or empty mimetype or format
\* is loaded as a table.
C12_DispatchesOnDeclaredFormat ==
    (LoadCall /\ Done /\ srv.success
        /\ srv.result.mimetype.kind \in {"str", "missing"}
        /\ srv.result.format.kind \in {"str", "missing"}) =>
        /\ ret = ValueError("PDF resources are not supported") => DenotesPdf
        /\ (~DenotesPdf /\ DenotesCsv) =>
              ret = DataFrame("read_csv", srv.result.url)
        /\ (~DenotesPdf /\ ~DenotesCsv /\ DenotesExcel) =>
              ret = DataFrame("read_excel", srv.result.url)
        /\ (~DenotesPdf /\ ~DenotesCsv /\ ~DenotesExcel) =>
              ret = ValueError("Unsupported file format")

====
